---- MODULE Spec2Model ----
(***************************************************************************)
(* Model of the order safety validator (AlpacaTrader.execute_decisions)    *)
(* and of the position risk control loop (RiskManager.monitor_and_execute). *)
(*                                                                         *)
(* Numbers.  The program computes in Python floats.  The model computes in *)
(* integers: money and prices are whole dollars, percentages are whole     *)
(* per cent, and a held quantity is counted in 1/QtyScale of a share (a    *)
(* Gateway position may be fractional).  x * (1 - p) is kept as            *)
(* x * (100 - p) over 100, and int() is truncation toward zero.  On the    *)
(* grids used below the double results equal the exact ones.               *)
(***************************************************************************)
EXTENDS Integers, Sequences, FiniteSets, TLC

\* ------------------------------------------------------------------ bounds
MaxShares == 10
QtyScale == 2
MaxCash == 100
BasePrice == 10
EntryPrice == 100
MaxSaveFaults == 1
MaxRetries == 3

\* ------------------------------------------------------- program constants
BufferPct == 5
QuoteTolerancePct == 2
TrailingPct == 5
InitialStopLossPct == 8

Symbols == {"AAPL", "TSLA"}

\* What a decision's "action" field may hold: the five actions, a lower-case
\* spelling, an action the validator does not know, and "" for a missing key.
Actions == {"BUY", "SELL", "sell", "SHORT", "COVER", "HOLD", "CLOSE", ""}
Quantities == {-1, 0, 1, MaxShares}

\* The account's cash and the quotes the Gateway may answer with.
CashValues == {0 - MaxCash, 0, MaxCash}
Asks == {0, BasePrice, BasePrice + 1}
Lasts == {0, BasePrice}

\* The (ask, last-trade) pairs of one price fetch; in the last pair the ask
\* is exactly 2% above the last-trade price.
Quotes == (Asks \X Lasts) \cup {<<51 * BasePrice, 50 * BasePrice>>}

\* A Gateway position of one symbol: its signed quantity (positive = long,
\* negative = short) in 1/QtyScale shares; 0 stands for "no position".  The
\* large holdings are a fraction of a share short of MaxShares shares.
HeldQtys == {1 - MaxShares * QtyScale, 0, 1, MaxShares * QtyScale - 1}

VARIABLES
    tpc,        \* execute_decisions: "idle", "loop" (inside the for loop), "done",
                \* "raised" (an exception left it); "off": no batch in this process
    account,    \* the Gateway's account when the batch's snapshot was read
    portfolio,  \* the snapshot get_live_portfolio returned for this batch
    pending,    \* the tickers of the batch not yet iterated over
    calls,      \* the submit_order calls of this batch, in order
    last        \* the decision handled by the latest loop iteration, and its fate

traderVars == <<tpc, account, portfolio, pending, calls, last>>

VARIABLES
    trailing_pct,           \* RiskManager.trailing_pct, in per cent
    initial_stop_loss_pct,  \* RiskManager.initial_stop_loss_pct, in per cent
    risk_data,              \* RiskManager.risk_data: symbol -> record
    data_file,              \* risk_data.json: absent, unparsable, or a dict
    rpc,                    \* monitor_and_execute: "idle", "loop", "done",
                            \* "aborted" (returned at line 80); "off": no
                            \* RiskManager in this process
    positions,              \* the list the pass's get_all_positions returned
    cursor,                 \* how many of `positions` the loop has handled
    current_symbols,        \* the pass's current_symbols list
    closes,                 \* the submit_order calls of execute_close, this pass
    evaluated,              \* the position the latest loop iteration handled
    save_faults,            \* how many writes of risk_data.json have failed
    tracked,                \* per symbol, the extreme_price last stored while
                            \* its position has stayed live on one side
    saved,                  \* how this pass's _save_data call went, "none"
                            \* before it is made
    earlier                 \* when this pass repeats the one before it: the
                            \* file that pass left, whether it closed nothing,
                            \* and its execute_close calls

riskVars == <<trailing_pct, initial_stop_loss_pct, risk_data, data_file, rpc,
              positions, cursor, current_symbols, closes, evaluated, save_faults,
              tracked, saved, earlier>>

VARIABLES
    managers,       \* two RiskManager processes: pc, risk_data, position read
    shared_file,    \* the risk_data.json the two share
    gateway,        \* the account's one position, as the Gateway holds it
    orders          \* the closing orders the two have sent, in order

overlapVars == <<managers, shared_file, gateway, orders>>

VARIABLES
    lpc,            \* call_llm: "loop", "returned"; "off": not called
    max_retries,    \* call_llm's max_retries argument
    manual_json,    \* the model has no JSON mode (line 65)
    has_default,    \* a default_factory was given
    attempts,       \* how each llm.invoke attempt ended, in order
    returned        \* what call_llm returned, "none" before it has

llmVars == <<lpc, max_retries, manual_json, has_default, attempts, returned>>

vars == <<traderVars, riskVars, overlapVars, llmVars>>

\* ------------------------------------------------------------- arithmetic
\* Python's int() of the quotient n/d (d > 0): truncation toward zero.
Trunc(n, d) == IF n >= 0 THEN n \div d ELSE 0 - ((0 - n) \div d)

Abs(x) == IF x < 0 THEN 0 - x ELSE x

Min(a, b) == IF a <= b THEN a ELSE b

\* str.upper() on the alphabet of Actions.
Upper(a) == IF a = "sell" THEN "SELL" ELSE a

\* ------------------------------------------------------ get_live_portfolio
\* A position object of the Gateway: qty is signed and side follows its sign.
GatewaySide(qty) == IF qty > 0 THEN "long" ELSE "short"

FormatPosition(qty) ==
    [long  |-> IF GatewaySide(qty) = "long" THEN qty ELSE 0,
     short |-> IF GatewaySide(qty) = "short" THEN qty ELSE 0]

\* held: [Symbols -> HeldQtys]; only symbols with a position get an entry.
get_live_portfolio(cash, held) ==
    [cash |-> cash,
     positions |-> [s \in {t \in Symbols : held[t] # 0} |-> FormatPosition(held[s])]]

\* positions.get(ticker, {}).get(key, 0)
HeldOf(formatted, ticker, key) ==
    IF ticker \in DOMAIN formatted THEN formatted[ticker][key] ELSE 0

\* ------------------------------------------------------ get_realtime_price
\* A tolerance that is already exceeded at exactly 2%.
QuoteDivergesInclusive(ask, last_price) ==
    100 * Abs(ask - last_price) >= QuoteTolerancePct * last_price

\* abs(ask - last_price) / last_price > 0.02, for last_price > 0.
QuoteDiverges(ask, last_price) ==
    100 * Abs(ask - last_price) > QuoteTolerancePct * last_price

\* The price the two sources give when both calls return.
QuotedPrice(ask, last_price) ==
    IF ask > 0 /\ last_price > 0 /\ QuoteDiverges(ask, last_price) THEN last_price
    ELSE IF ask > 0 THEN ask
    ELSE IF last_price > 0 THEN last_price
    ELSE 0

\* fetch_ok = FALSE: one of the two data calls raised, caught, 0.0 returned.
get_realtime_price(ask, last_price, fetch_ok) ==
    IF fetch_ok THEN QuotedPrice(ask, last_price) ELSE 0

\* ------------------------------------------------------- execute_decisions
\* int(quantity * (1 - self.buffer_pct))
ScaleByBuffer(quantity) == Trunc(quantity * (100 - BufferPct), 100)

\* max_qty = int((cash * (1 - self.buffer_pct)) / rt_price), for rt_price # 0
MaxAffordable(cash, rt_price) == Trunc(cash * (100 - BufferPct), 100 * rt_price)

\* Lines 105-110: the clamp is applied only when a price came back.
ClampToCash(quantity, cash, rt_price) ==
    IF rt_price # 0 /\ quantity > MaxAffordable(cash, rt_price)
    THEN MaxAffordable(cash, rt_price)
    ELSE quantity

\* int(long_qty) of a held quantity given in 1/QtyScale shares.
WholeShares(held) == Trunc(held, QtyScale)

\* A SELL that goes out for the requested quantity, whatever is held.
SellQuantityUnclamped(quantity, long_qty) == quantity

\* Line 133: quantity = min(quantity, int(long_qty))
SellQuantity(quantity, long_qty) == Min(quantity, WholeShares(long_qty))

\* Lines 142-143
CoverQuantity(quantity, short_qty) ==
    ScaleByBuffer(Min(quantity, WholeShares(short_qty)))

\* Line 112: a BUY is refused when the snapshot shows a short position.
BuyBlocked(short_qty) == short_qty > 0

\* A SHORT refused only for a long position of at least one whole share.
ShortBlockedWholeShares(long_qty) == WholeShares(long_qty) > 0

\* Line 121: a SHORT is refused when the snapshot shows a long position.
ShortBlocked(long_qty) == long_qty > 0

\* Line 128: a SELL is refused when the snapshot shows no long position.
SellBlocked(long_qty) == long_qty <= 0

\* Line 137: a COVER is refused when the snapshot shows no short position.
CoverBlocked(short_qty) == short_qty <= 0

\* Lines 98-143: the if/elif chain.  side "NONE" is Python's None, and
\* reason "" is skip_reason = None.
Resolve(action, quantity, long_qty, short_qty, cash, rt_price) ==
    CASE action = "BUY" ->
            IF BuyBlocked(short_qty)
            THEN [side |-> "NONE", reason |-> "existing short",
                  quantity |-> ClampToCash(quantity, cash, rt_price)]
            ELSE [side |-> "BUY", reason |-> "",
                  quantity |-> ScaleByBuffer(ClampToCash(quantity, cash, rt_price))]
      [] action = "SHORT" ->
            IF ShortBlocked(long_qty)
            THEN [side |-> "NONE", reason |-> "existing long", quantity |-> quantity]
            ELSE [side |-> "SELL", reason |-> "", quantity |-> quantity]
      [] action = "SELL" ->
            IF SellBlocked(long_qty)
            THEN [side |-> "NONE", reason |-> "no long", quantity |-> quantity]
            ELSE [side |-> "SELL", reason |-> "",
                  quantity |-> SellQuantity(quantity, long_qty)]
      [] action = "COVER" ->
            IF CoverBlocked(short_qty)
            THEN [side |-> "NONE", reason |-> "no short", quantity |-> quantity]
            ELSE [side |-> "BUY", reason |-> "",
                  quantity |-> CoverQuantity(quantity, short_qty)]
      [] OTHER -> [side |-> "NONE", reason |-> "", quantity |-> quantity]

\* The filter without its quantity test.
IsSkippedHoldOnly(action, quantity) == action = "HOLD"

\* Line 90: the basic filter.
IsSkipped(action, quantity) == quantity <= 0 \/ action = "HOLD"

\* What one loop iteration does with one decision: "skip" (line 92),
\* "reject" (line 148), "ignore" (neither skip_reason nor side),
\* "submitted" or "failed" (submit_order returned or raised).
Outcome(action, quantity, resolved, submit_ok) ==
    IF IsSkipped(action, quantity) THEN "skip"
    ELSE IF resolved.reason # "" THEN "reject"
    ELSE IF resolved.side = "NONE" THEN "ignore"
    ELSE IF submit_ok THEN "submitted" ELSE "failed"

\* Line 104 is reached: the decision passed the filter and is a BUY.
PriceFetched(action, quantity) == action = "BUY" /\ ~IsSkipped(action, quantity)

NoDecision ==
    [ticker |-> "", raw_action |-> "", action |-> "", requested |-> 0,
     long_qty |-> 0, short_qty |-> 0, held |-> 0, rt_price |-> 0, live_price |-> 0,
     outcome |-> "none", side |-> "NONE", quantity |-> 0, reason |-> "",
     fetched |-> FALSE, ask |-> 0, last_price |-> 0, fetch_ok |-> TRUE]

TraderInit ==
    /\ tpc = "idle"
    /\ account = [cash |-> 0, held |-> [s \in Symbols |-> 0]]
    /\ portfolio = get_live_portfolio(0, [s \in Symbols |-> 0])
    /\ pending = {}
    /\ calls = <<>>
    /\ last = NoDecision

\* Lines 81-83: one snapshot per batch.  The batch is a dict keyed by ticker;
\* the Gateway's account (cash, held) is whatever it is at this moment.  The
\* trader keeps nothing from one batch to the next, so one batch is modelled.
ExecuteBegin ==
    /\ tpc = "idle"
    /\ \E cash \in CashValues, held \in [Symbols -> HeldQtys],
          batch \in SUBSET Symbols :
          /\ account' = [cash |-> cash, held |-> held]
          /\ portfolio' = get_live_portfolio(cash, held)
          /\ pending' = batch
    /\ tpc' = "loop"
    /\ calls' = <<>>
    /\ last' = NoDecision
    /\ UNCHANGED <<riskVars, overlapVars, llmVars>>

\* Lines 150-163: one submit_order call, whose exception is caught and
\* printed.
submit_order(log, call) == Append(log, call)

\* A submit failure that leaves execute_decisions as an exception.
AfterSubmitUncaught(outcome) == IF outcome = "failed" THEN "raised" ELSE "loop"

\* Lines 146-163: continue, or the try/except around the submit: whatever
\* became of the decision, the loop goes on.
AfterSubmit(outcome) == "loop"

\* Lines 85-163: one iteration of the loop, for the decision of `ticker`.
\* The decision (raw action, requested quantity), the Gateway's quotes and
\* whether the data calls and submit_order return or raise are the inputs.
ProcessDecision ==
    /\ tpc = "loop"
    /\ \E ticker \in pending, raw \in Actions, requested \in Quantities :
       \E quote \in IF PriceFetched(Upper(raw), requested) THEN Quotes ELSE {<<0, 0>>},
          fetch_ok \in IF PriceFetched(Upper(raw), requested) THEN BOOLEAN ELSE {TRUE},
          submit_ok \in BOOLEAN :
          LET action    == Upper(raw)
              ask       == quote[1]
              last_price == quote[2]
              long_qty  == HeldOf(portfolio.positions, ticker, "long")
              short_qty == HeldOf(portfolio.positions, ticker, "short")
              called    == PriceFetched(action, requested)
              rt_price  == IF called
                           THEN get_realtime_price(ask, last_price, fetch_ok)
                           ELSE 0
              live      == IF called THEN QuotedPrice(ask, last_price) ELSE 0
              resolved  == Resolve(action, requested, long_qty, short_qty,
                                   portfolio.cash, rt_price)
              outcome   == Outcome(action, requested, resolved, submit_ok)
          IN  /\ last' = [ticker |-> ticker, raw_action |-> raw, action |-> action,
                          requested |-> requested,
                          long_qty |-> long_qty, short_qty |-> short_qty,
                          held |-> account.held[ticker],
                          rt_price |-> rt_price, live_price |-> live,
                          outcome |-> outcome,
                          side |-> IF outcome \in {"skip", "ignore"} THEN "NONE"
                                   ELSE resolved.side,
                          quantity |-> IF outcome = "skip" THEN requested
                                       ELSE resolved.quantity,
                          reason |-> IF outcome = "skip" THEN "" ELSE resolved.reason,
                          fetched |-> called, ask |-> ask,
                          last_price |-> last_price, fetch_ok |-> fetch_ok]
              /\ calls' = IF outcome \in {"submitted", "failed"}
                          THEN submit_order(calls,
                                 [symbol |-> ticker, qty |-> resolved.quantity,
                                  side |-> resolved.side, action |-> action,
                                  ok |-> submit_ok, rt_price |-> rt_price,
                                  live_price |-> live])
                          ELSE calls
              /\ pending' = pending \ {ticker}
              /\ tpc' = AfterSubmit(outcome)
    /\ UNCHANGED <<account, portfolio>>
    /\ UNCHANGED <<riskVars, overlapVars, llmVars>>

\* What makes lines 86-87 raise: a quantity int() cannot convert (ValueError,
\* TypeError), an action that has no upper() (AttributeError), a decision
\* that has no get() (AttributeError).
Malformations == {"quantity", "action", "decision"}

\* Lines 85-87 for a malformed decision: the exception is not caught inside
\* execute_decisions, so it ends the loop and the call; the caller
\* (main.py:241-246) catches it after the fact.
ProcessMalformed ==
    /\ tpc = "loop"
    /\ \E ticker \in pending, fault \in Malformations :
          last' = [NoDecision EXCEPT !.ticker = ticker, !.outcome = "raised",
                                     !.reason = fault]
    /\ tpc' = "raised"
    /\ UNCHANGED <<account, portfolio, pending, calls>>
    /\ UNCHANGED <<riskVars, overlapVars, llmVars>>

\* The loop has run out of decisions: execute_decisions returns.
ExecuteEnd ==
    /\ tpc = "loop"
    /\ pending = {}
    /\ tpc' = "done"
    /\ UNCHANGED <<account, portfolio, pending, calls, last>>
    /\ UNCHANGED <<riskVars, overlapVars, llmVars>>

\* ------------------------------------------------------------ RiskManager
\* The Gateway's answers to get_all_positions.  A position object carries
\* symbol, qty (signed, in 1/QtyScale shares), avg_entry_price and
\* current_price.  AAPL ranges over both sides and the price grid around the
\* entry (the stops of an entry of EntryPrice fall on the grid), and its long
\* position over two average entry prices; TSLA, the second position of a
\* pass, is a short position at one of two prices, or one the Gateway
\* reports with an average entry price of 0.
Prices == {EntryPrice - 8, EntryPrice - 5, EntryPrice, EntryPrice + 5, EntryPrice + 8}

PositionsOf(symbol) ==
    IF symbol = "AAPL"
    THEN [symbol : {symbol}, qty : {3 * QtyScale},
          avg_entry_price : {EntryPrice, EntryPrice + 10}, current_price : Prices]
         \cup [symbol : {symbol}, qty : {0 - 2 * QtyScale},
               avg_entry_price : {EntryPrice}, current_price : Prices]
    ELSE [symbol : {symbol}, qty : {0 - (QtyScale + 1)},
          avg_entry_price : {EntryPrice}, current_price : {EntryPrice, EntryPrice + 8}]
         \cup [symbol : {symbol}, qty : {0 - (QtyScale + 1)},
               avg_entry_price : {0}, current_price : {EntryPrice}]

\* The lists get_all_positions may return: at most one position per symbol,
\* in the order of the symbols.
PositionLists ==
    {<<>>}
    \cup {<<p>> : p \in PositionsOf("AAPL") \cup PositionsOf("TSLA")}
    \cup {<<p, q>> : p \in PositionsOf("AAPL"), q \in PositionsOf("TSLA")}

\* The (trailing_pct, initial_stop_loss_pct) a RiskManager is built with.
PctConfigs ==
    {<<TrailingPct, InitialStopLossPct>>, <<InitialStopLossPct, TrailingPct>>,
     <<TrailingPct, TrailingPct>>}

EmptyDict == [s \in {} |-> 0]

\* risk_data.json: kind is "absent" (no file), "json" (holding dict) or
\* "corrupt" (a file json.load cannot parse).
NoFile == [kind |-> "absent", dict |-> EmptyDict]

CorruptFile == [kind |-> "corrupt", dict |-> EmptyDict]

\* _load_data: {} for a missing file and for one json.load cannot parse.
LoadData(file) == IF file.kind = "json" THEN file.dict ELSE EmptyDict

\* _save_data: "ok" writes the dict; "unopened" is open() raising (the file is
\* left as it was); "partial" is the write raising after open() truncated it.
SaveData(file, dict, outcome) ==
    CASE outcome = "ok" -> [kind |-> "json", dict |-> dict]
      [] outcome = "unopened" -> file
      [] outcome = "partial" -> CorruptFile

SaveOutcomes == {"ok", "unopened", "partial"}

\* The outcomes still open to a save: at most MaxSaveFaults writes fail.
SaveOutcomesLeft(faults) == IF faults < MaxSaveFaults THEN SaveOutcomes ELSE {"ok"}

\* A del that leaves the record in place.
Keeping(dict, k) == dict

\* A record that is never put into the dict.
NotStored(dict, k, v) == dict

\* dict with key k removed / set.
Without(dict, k) == [s \in DOMAIN dict \ {k} |-> dict[s]]

With(dict, k, v) == [s \in DOMAIN dict \cup {k} |-> IF s = k THEN v ELSE dict[s]]

Max(a, b) == IF a >= b THEN a ELSE b

SeqToSet(seq) == {seq[i] : i \in DOMAIN seq}

\* Line 95
IsLong(position) == position.qty > 0

\* Lines 98-102: the record the iteration works on.
RecordFor(dict, position) ==
    IF position.symbol \in DOMAIN dict
    THEN dict[position.symbol]
    ELSE [extreme_price |-> position.current_price,
          side |-> IF IsLong(position) THEN "LONG" ELSE "SHORT"]

\* An extreme that simply follows the current price.
FollowPrice(is_long, current_price, extreme_price) == current_price

\* Lines 107-109 and 118-120: the extreme moves only in the position's favour.
NewExtreme(is_long, current_price, extreme_price) ==
    IF is_long
    THEN IF current_price > extreme_price THEN current_price ELSE extreme_price
    ELSE IF current_price < extreme_price THEN current_price ELSE extreme_price

\* A hard stop placed at the entry price itself.
HardStopAtEntry(is_long, avg_entry_price, hard_pct) == avg_entry_price * 100

\* Lines 112 and 123, times 100.
HardStop(is_long, avg_entry_price, hard_pct) ==
    IF is_long THEN avg_entry_price * (100 - hard_pct)
    ELSE avg_entry_price * (100 + hard_pct)

\* Lines 113 and 124, times 100.
TrailStop(is_long, extreme_price, trail_pct) ==
    IF is_long THEN extreme_price * (100 - trail_pct)
    ELSE extreme_price * (100 + trail_pct)

\* A final stop that takes the looser of the two stops.
LooserStop(is_long, hard_stop, trail_stop) ==
    IF is_long THEN Min(hard_stop, trail_stop) ELSE Max(hard_stop, trail_stop)

\* Lines 114 and 125, times 100.
FinalStop(is_long, hard_stop, trail_stop) ==
    IF is_long THEN Max(hard_stop, trail_stop) ELSE Min(hard_stop, trail_stop)

\* Lines 115 and 126; final_stop is times 100.
Triggered(is_long, current_price, final_stop) ==
    IF is_long THEN 100 * current_price <= final_stop
    ELSE 100 * current_price >= final_stop

\* Line 132
Reason(final_stop, trail_stop) == IF final_stop = trail_stop THEN "TRAIL" ELSE "HARD"

\* A closing order on the side of the position itself.
CloseSideSame(is_long) == IF is_long THEN "BUY" ELSE "SELL"

\* Lines 116 and 127
CloseSide(is_long) == IF is_long THEN "SELL" ELSE "BUY"

\* Lines 92-133 for one position, against the dict as it stands.
Evaluate(dict, position, trail_pct, hard_pct) ==
    LET is_long    == IsLong(position)
        record     == RecordFor(dict, position)
        extreme    == NewExtreme(is_long, position.current_price, record.extreme_price)
        hard_stop  == HardStop(is_long, position.avg_entry_price, hard_pct)
        trail_stop == TrailStop(is_long, extreme, trail_pct)
        final_stop == FinalStop(is_long, hard_stop, trail_stop)
    IN  [symbol |-> position.symbol, is_long |-> is_long,
         qty |-> Abs(position.qty),
         avg_entry_price |-> position.avg_entry_price,
         current_price |-> position.current_price,
         had_record |-> position.symbol \in DOMAIN dict,
         stored_extreme |-> record.extreme_price,
         record |-> [extreme_price |-> extreme, side |-> record.side],
         hard_stop |-> hard_stop, trail_stop |-> trail_stop,
         final_stop |-> final_stop,
         triggered |-> Triggered(is_long, position.current_price, final_stop),
         reason |-> Reason(final_stop, trail_stop),
         close_side |-> CloseSide(is_long)]

NoEvaluation ==
    [symbol |-> "", is_long |-> FALSE, qty |-> 0, avg_entry_price |-> 0,
     current_price |-> 0, had_record |-> FALSE, stored_extreme |-> 0,
     record |-> [extreme_price |-> 0, side |-> ""],
     hard_stop |-> 0, trail_stop |-> 0, final_stop |-> 0,
     triggered |-> FALSE, reason |-> "", close_side |-> ""]

NotTracked == [extreme_price |-> 0, side |-> ""]

\* The tracking of a symbol ends when its position is gone or has changed side.
StillTracked(track, list) ==
    [s \in Symbols |->
        IF \E i \in DOMAIN list :
              /\ list[i].symbol = s
              /\ track[s].side = (IF IsLong(list[i]) THEN "LONG" ELSE "SHORT")
        THEN track[s] ELSE NotTracked]

\* No pass before this one, or not one it repeats.
NoEarlier == [repeat |-> FALSE, file |-> NoFile, quiet |-> FALSE, closes |-> <<>>]

\* An execute_close that submits again when the submit raised.
ExecuteCloseRetrying(log, call) ==
    IF call.ok THEN Append(log, call) ELSE Append(Append(log, call), call)

\* Lines 139-151: one submit_order call, whose exception is caught and logged.
execute_close(log, call) == Append(log, call)

\* RiskManager.__init__: the percentages and the dict loaded from the file.
RiskInit ==
    /\ \E cfg \in PctConfigs :
          /\ trailing_pct = cfg[1]
          /\ initial_stop_loss_pct = cfg[2]
    /\ data_file = NoFile
    /\ risk_data = LoadData(NoFile)
    /\ rpc = "idle"
    /\ positions = <<>>
    /\ cursor = 0
    /\ current_symbols = <<>>
    /\ closes = <<>>
    /\ evaluated = NoEvaluation
    /\ save_faults = 0
    /\ tracked = [s \in Symbols |-> NotTracked]
    /\ saved = "none"
    /\ earlier = NoEarlier

\* A failed read handled as if the Gateway had answered with no position.
MonitorAbortAsEmpty ==
    /\ rpc = "idle"
    /\ rpc' = "aborted"
    /\ risk_data' = EmptyDict
    /\ data_file' = SaveData(data_file, EmptyDict, "ok")
    /\ saved' = "ok"
    /\ UNCHANGED <<trailing_pct, initial_stop_loss_pct, positions, cursor,
                   current_symbols, closes, evaluated, save_faults, tracked,
                   earlier>>
    /\ UNCHANGED <<traderVars, overlapVars, llmVars>>

\* Lines 76-80: get_all_positions raises; the pass returns at once.
MonitorAbort ==
    /\ rpc = "idle"
    /\ rpc' = "aborted"
    /\ UNCHANGED <<trailing_pct, initial_stop_loss_pct, risk_data, data_file,
                   positions, cursor, current_symbols, closes, evaluated,
                   save_faults, tracked, saved, earlier>>
    /\ UNCHANGED <<traderVars, overlapVars, llmVars>>

\* Lines 76-86: the Gateway answers with no position.
MonitorEmpty ==
    /\ rpc = "idle"
    /\ \E outcome \in SaveOutcomesLeft(save_faults) :
          /\ data_file' = SaveData(data_file, EmptyDict, outcome)
          /\ save_faults' = IF outcome = "ok" THEN save_faults ELSE save_faults + 1
          /\ saved' = outcome
    /\ risk_data' = EmptyDict
    /\ tracked' = StillTracked(tracked, <<>>)
    /\ rpc' = "done"
    /\ UNCHANGED <<trailing_pct, initial_stop_loss_pct, positions, cursor,
                   current_symbols, closes, evaluated, earlier>>
    /\ UNCHANGED <<traderVars, overlapVars, llmVars>>

\* Lines 76-88: the Gateway answers with a list of positions.
MonitorBegin ==
    /\ rpc = "idle"
    /\ \E list \in PositionLists \ {<<>>} :
          /\ positions' = list
          /\ tracked' = StillTracked(tracked, list)
    /\ rpc' = "loop"
    /\ UNCHANGED <<trailing_pct, initial_stop_loss_pct, risk_data, data_file,
                   cursor, current_symbols, closes, evaluated, save_faults,
                   saved, earlier>>
    /\ UNCHANGED <<traderVars, overlapVars, llmVars>>

\* Lines 89-134: one iteration of the loop.  submit_ok is whether the
\* submit_order call of execute_close returns or raises (lines 141-151).
EvaluatePosition ==
    /\ rpc = "loop"
    /\ cursor < Len(positions)
    /\ LET position == positions[cursor + 1]
           e == Evaluate(risk_data, position, trailing_pct, initial_stop_loss_pct)
       IN  /\ evaluated' = e
           /\ current_symbols' = Append(current_symbols, e.symbol)
           /\ IF e.triggered
              THEN /\ \E submit_ok \in BOOLEAN :
                         closes' = execute_close(closes,
                                     [symbol |-> e.symbol, qty |-> e.qty,
                                      side |-> e.close_side, reason |-> e.reason,
                                      ok |-> submit_ok])
                   /\ risk_data' = Without(risk_data, e.symbol)
                   /\ tracked' = tracked
              ELSE /\ closes' = closes
                   /\ risk_data' = With(risk_data, e.symbol, e.record)
                   /\ tracked' = [tracked EXCEPT ![e.symbol] =
                                     [extreme_price |-> e.record.extreme_price,
                                      side |-> IF e.is_long THEN "LONG" ELSE "SHORT"]]
    /\ cursor' = cursor + 1
    /\ UNCHANGED <<trailing_pct, initial_stop_loss_pct, data_file, rpc, positions,
                   save_faults, saved, earlier>>
    /\ UNCHANGED <<traderVars, overlapVars, llmVars>>

\* Lines 136-137: prune to the live symbols and save.
MonitorEnd ==
    /\ rpc = "loop"
    /\ cursor = Len(positions)
    /\ LET kept == [s \in DOMAIN risk_data \cap SeqToSet(current_symbols) |->
                       risk_data[s]]
       IN  /\ risk_data' = kept
           /\ \E outcome \in SaveOutcomesLeft(save_faults) :
                 /\ data_file' = SaveData(data_file, kept, outcome)
                 /\ save_faults' = IF outcome = "ok" THEN save_faults
                                   ELSE save_faults + 1
                 /\ saved' = outcome
    /\ rpc' = "done"
    /\ UNCHANGED <<trailing_pct, initial_stop_loss_pct, positions, cursor,
                   current_symbols, closes, evaluated, tracked, earlier>>
    /\ UNCHANGED <<traderVars, overlapVars, llmVars>>

\* monitor_and_execute has returned: its locals are gone.
PassReturn ==
    /\ rpc \in {"done", "aborted"}
    /\ rpc' = "idle"
    /\ positions' = <<>>
    /\ cursor' = 0
    /\ current_symbols' = <<>>
    /\ closes' = <<>>
    /\ evaluated' = NoEvaluation
    /\ saved' = "none"
    /\ earlier' = NoEarlier
    /\ UNCHANGED <<trailing_pct, initial_stop_loss_pct, risk_data, data_file,
                   save_faults, tracked>>
    /\ UNCHANGED <<traderVars, overlapVars, llmVars>>

\* monitor_and_execute has returned and is called again at once, and the
\* Gateway answers with the same positions at the same prices (lines 76-88).
MonitorRepeat ==
    /\ rpc = "done"
    /\ positions # <<>>
    /\ earlier' = [repeat |-> TRUE, file |-> data_file, quiet |-> closes = <<>>,
                    closes |-> closes]
    /\ tracked' = StillTracked(tracked, positions)
    /\ rpc' = "loop"
    /\ cursor' = 0
    /\ current_symbols' = <<>>
    /\ closes' = <<>>
    /\ evaluated' = NoEvaluation
    /\ saved' = "none"
    /\ UNCHANGED <<trailing_pct, initial_stop_loss_pct, risk_data, data_file,
                   positions, save_faults>>
    /\ UNCHANGED <<traderVars, overlapVars, llmVars>>

\* A new process: RiskManager() again, with the same percentages.
Restart ==
    /\ rpc = "idle"
    /\ risk_data' = LoadData(data_file)
    /\ UNCHANGED <<trailing_pct, initial_stop_loss_pct, data_file, rpc, positions,
                   cursor, current_symbols, closes, evaluated, save_faults, tracked,
                   saved, earlier>>
    /\ UNCHANGED <<traderVars, overlapVars, llmVars>>

NextRisk ==
    MonitorAbort \/ MonitorEmpty \/ MonitorBegin \/ EvaluatePosition \/ MonitorEnd
    \/ PassReturn \/ MonitorRepeat \/ Restart

\* ----------------------------------------- two RiskManager runs at once
\* Two processes (risk_manager.py run twice) against one risk_data.json and
\* one account.  The account holds one long position; each run reads it at
\* the price of that moment.  Writes succeed, and a submitted closing order
\* is filled at once, so that what goes wrong here is due to the overlap.
Managers == {"A", "B"}

OverlapPrices == {EntryPrice, EntryPrice + 5}

NoPosition == [symbol |-> "", qty |-> 0, avg_entry_price |-> 0, current_price |-> 0]

NewManager == [pc |-> "new", risk_data |-> EmptyDict, seen |-> NoPosition]

OverlapInit ==
    /\ managers = [m \in Managers |-> NewManager]
    /\ shared_file = NoFile
    /\ \E entry \in {EntryPrice, EntryPrice + 10} :
          gateway = [live |-> TRUE, symbol |-> "AAPL", qty |-> 3 * QtyScale,
                     avg_entry_price |-> entry]
    /\ orders = <<>>

\* No second process.
OverlapIdle ==
    /\ managers = [m \in Managers |-> [NewManager EXCEPT !.pc = "off"]]
    /\ shared_file = NoFile
    /\ gateway = [live |-> FALSE, symbol |-> "", qty |-> 0, avg_entry_price |-> 0]
    /\ orders = <<>>

\* RiskManager.__init__, line 34: the store is loaded once, here.
OverlapConstruct(m) ==
    /\ managers[m].pc = "new"
    /\ managers' = [managers EXCEPT ![m].pc = "idle",
                                    ![m].risk_data = LoadData(shared_file)]
    /\ UNCHANGED <<shared_file, gateway, orders>>
    /\ UNCHANGED <<traderVars, riskVars, llmVars>>

\* Lines 76-88: get_all_positions; lines 82-86 when the account is empty.
OverlapRead(m) ==
    /\ managers[m].pc = "idle"
    /\ IF gateway.live
       THEN /\ \E price \in OverlapPrices :
                  managers' = [managers EXCEPT
                      ![m].pc = "loop",
                      ![m].seen = [symbol |-> gateway.symbol, qty |-> gateway.qty,
                                   avg_entry_price |-> gateway.avg_entry_price,
                                   current_price |-> price]]
            /\ shared_file' = shared_file
       ELSE /\ managers' = [managers EXCEPT ![m].pc = "done",
                                            ![m].risk_data = EmptyDict]
            /\ shared_file' = SaveData(shared_file, EmptyDict, "ok")
    /\ UNCHANGED <<gateway, orders>>
    /\ UNCHANGED <<traderVars, riskVars, llmVars>>

\* Lines 89-134 for the position read.
OverlapEvaluate(m) ==
    /\ managers[m].pc = "loop"
    /\ LET e == Evaluate(managers[m].risk_data, managers[m].seen,
                         TrailingPct, InitialStopLossPct)
       IN  IF e.triggered
           THEN \E submit_ok \in BOOLEAN :
                   /\ orders' = execute_close(orders,
                                   [symbol |-> e.symbol, qty |-> e.qty,
                                    side |-> e.close_side, reason |-> e.reason,
                                    ok |-> submit_ok])
                   /\ gateway' = IF submit_ok THEN [gateway EXCEPT !.live = FALSE]
                                 ELSE gateway
                   /\ managers' = [managers EXCEPT
                          ![m].pc = "save",
                          ![m].risk_data = Without(managers[m].risk_data, e.symbol)]
           ELSE /\ managers' = [managers EXCEPT
                       ![m].pc = "save",
                       ![m].risk_data = With(managers[m].risk_data, e.symbol, e.record)]
                /\ UNCHANGED <<gateway, orders>>
    /\ UNCHANGED shared_file
    /\ UNCHANGED <<traderVars, riskVars, llmVars>>

\* Lines 136-137: prune to the symbol read and write the file.
OverlapSave(m) ==
    /\ managers[m].pc = "save"
    /\ LET kept == [s \in DOMAIN managers[m].risk_data \cap {managers[m].seen.symbol}
                      |-> managers[m].risk_data[s]]
       IN  /\ managers' = [managers EXCEPT ![m].pc = "done", ![m].risk_data = kept]
           /\ shared_file' = SaveData(shared_file, kept, "ok")
    /\ UNCHANGED <<gateway, orders>>
    /\ UNCHANGED <<traderVars, riskVars, llmVars>>

NextOverlap ==
    \E m \in Managers :
        OverlapConstruct(m) \/ OverlapRead(m) \/ OverlapEvaluate(m) \/ OverlapSave(m)

\* ------------------------------------------------------------- call_llm
\* utils/llm.py.  manual_json: the model has no JSON mode, so the response
\* is parsed by extract_json_from_response (line 65).  An attempt ends in
\* "result" (line 70), "parsed" (line 68), "no_json" (line 67 finds nothing
\* and the loop goes on) or "raised" (invoke, the extraction or the pydantic
\* constructor raised; line 72).
AttemptOutcomes(manual) ==
    IF manual THEN {"parsed", "no_json", "raised"} ELSE {"result", "raised"}

LlmInit ==
    /\ lpc = "loop"
    /\ max_retries \in 0..MaxRetries
    /\ manual_json \in BOOLEAN
    /\ has_default \in BOOLEAN
    /\ attempts = <<>>
    /\ returned = "none"

\* No call_llm in this process.
LlmIdle ==
    /\ lpc = "off"
    /\ max_retries = 0
    /\ manual_json = FALSE
    /\ has_default = FALSE
    /\ attempts = <<>>
    /\ returned = "none"

\* Lines 76-84: what is returned when no attempt gave a result.  exhausted:
\* the loop ran out (line 84) rather than ending in the except branch.
Fallback(exhausted, with_default) ==
    IF ~exhausted /\ with_default THEN "default_factory"
    ELSE "create_default_response"

\* Lines 59-81: one iteration of the retry loop.
CallAttempt ==
    /\ lpc = "loop"
    /\ Len(attempts) < max_retries
    /\ \E outcome \in AttemptOutcomes(manual_json) :
          /\ attempts' = Append(attempts, outcome)
          /\ IF outcome \in {"result", "parsed"}
             THEN lpc' = "returned" /\ returned' = "model"
             ELSE IF outcome = "raised" /\ Len(attempts) = max_retries - 1
             THEN lpc' = "returned" /\ returned' = Fallback(FALSE, has_default)
             ELSE lpc' = "loop" /\ returned' = returned
    /\ UNCHANGED <<max_retries, manual_json, has_default>>
    /\ UNCHANGED <<traderVars, riskVars, overlapVars>>

\* Line 84: the loop ended without a return.
CallExhausted ==
    /\ lpc = "loop"
    /\ Len(attempts) = max_retries
    /\ lpc' = "returned"
    /\ returned' = Fallback(TRUE, has_default)
    /\ UNCHANGED <<max_retries, manual_json, has_default, attempts>>
    /\ UNCHANGED <<traderVars, riskVars, overlapVars>>

NextLlm == CallAttempt \/ CallExhausted

\* ------------------------------------------------------------ specifications
\* No batch runs in the risk manager's process, and no RiskManager in the
\* trader's.
TraderIdle ==
    /\ tpc = "off"
    /\ account = [cash |-> 0, held |-> [s \in Symbols |-> 0]]
    /\ portfolio = get_live_portfolio(0, [s \in Symbols |-> 0])
    /\ pending = {}
    /\ calls = <<>>
    /\ last = NoDecision

RiskIdle ==
    /\ trailing_pct = TrailingPct
    /\ initial_stop_loss_pct = InitialStopLossPct
    /\ data_file = NoFile
    /\ risk_data = LoadData(NoFile)
    /\ rpc = "off"
    /\ positions = <<>>
    /\ cursor = 0
    /\ current_symbols = <<>>
    /\ closes = <<>>
    /\ evaluated = NoEvaluation
    /\ save_faults = 0
    /\ tracked = [s \in Symbols |-> NotTracked]
    /\ saved = "none"
    /\ earlier = NoEarlier

\* One batch of execute_decisions.
Init == TraderInit /\ RiskIdle /\ OverlapIdle /\ LlmIdle

Next == ExecuteBegin \/ ProcessDecision \/ ProcessMalformed \/ ExecuteEnd

Spec == Init /\ [][Next]_vars

\* The passes of one risk_data.json, by one RiskManager after another.
InitRisk == RiskInit /\ TraderIdle /\ OverlapIdle /\ LlmIdle

SpecRisk == InitRisk /\ [][NextRisk]_vars

\* Either process: a batch of the trader, or the passes of the risk manager.
InitOrders == Init \/ InitRisk

NextOrders == Next \/ NextRisk

SpecOrders == InitOrders /\ [][NextOrders]_vars

\* Two risk manager processes at once.
InitOverlap == OverlapInit /\ TraderIdle /\ RiskIdle /\ LlmIdle

SpecOverlap == InitOverlap /\ [][NextOverlap]_vars

\* One call of call_llm.
InitLlm == LlmInit /\ TraderIdle /\ RiskIdle /\ OverlapIdle

SpecLlm == InitLlm /\ [][NextLlm]_vars

\* ------------------------------------------------- claims on the validator
SubmitOutcomes == {"submitted", "failed"}

\* The submit_order calls of this batch made for `ticker`.
CallsFor(ticker) == {i \in DOMAIN calls : calls[i].symbol = ticker}

\* C1: every BUY order's quantity times the symbol's live price is at most
\* snapshot cash times (1 - buffer_pct), whether or not the price fetch
\* succeeded.  Stated for an account with cash.
BuyNotionalWithinBuffer ==
    \A i \in DOMAIN calls :
        (calls[i].action = "BUY" /\ portfolio.cash > 0)
        => 100 * calls[i].qty * calls[i].live_price
               <= portfolio.cash * (100 - BufferPct)

RECURSIVE BuySideNotional(_)
BuySideNotional(cs) ==
    IF cs = <<>> THEN 0
    ELSE (IF Head(cs).side = "BUY" THEN Head(cs).qty * Head(cs).rt_price ELSE 0)
         + BuySideNotional(Tail(cs))

\* C2: within one batch the BUY-side orders' quantity times sizing price sum
\* to at most the snapshot's cash.  Stated for an account with cash.
BatchNotionalWithinCash ==
    portfolio.cash > 0 => BuySideNotional(calls) <= portfolio.cash

\* C3: a SELL order is submitted only against a long position of the
\* snapshot and for at most the long quantity held; a COVER order only
\* against a short position and for at most the short quantity held.
CloseWithinHoldings ==
    \A i \in DOMAIN calls :
        LET long_qty  == HeldOf(portfolio.positions, calls[i].symbol, "long")
            short_qty == HeldOf(portfolio.positions, calls[i].symbol, "short")
        IN  /\ calls[i].action = "SELL"
                => long_qty > 0 /\ calls[i].qty * QtyScale <= long_qty
            /\ calls[i].action = "COVER"
                => short_qty > 0 /\ calls[i].qty * QtyScale <= short_qty

\* C3's case: a SELL for more than is held went out for the whole shares held.
SellClampedToHoldings ==
    /\ last.action = "SELL"
    /\ last.outcome = "submitted"
    /\ last.quantity >= 1
    /\ last.quantity < last.requested
    /\ last.quantity * QtyScale <= last.long_qty

\* C4: a BUY for a symbol the Gateway holds short is rejected: no order.
BuyRejectedWhenShort ==
    (last.action = "BUY" /\ last.requested > 0 /\ last.held < 0)
    => last.outcome = "reject" /\ CallsFor(last.ticker) = {}

\* C5: a SHORT is rejected, with no submit_order call, when the snapshot
\* holds a long position of the symbol, and goes out as a SELL-side order
\* for the requested quantity when it holds none.
ShortOnlyWithoutLong ==
    (last.action = "SHORT" /\ last.requested > 0)
    => IF last.long_qty > 0
       THEN /\ last.outcome = "reject"
            /\ last.reason = "existing long"
            /\ CallsFor(last.ticker) = {}
       ELSE /\ last.outcome \in SubmitOutcomes
            /\ last.side = "SELL"
            /\ calls # <<>>
            /\ calls[Len(calls)].symbol = last.ticker
            /\ calls[Len(calls)].side = "SELL"
            /\ calls[Len(calls)].qty = last.requested

\* C5's case: a SHORT against a held fraction of a share was refused.
ShortRejectedOnLong ==
    /\ last.action = "SHORT"
    /\ last.requested > 0
    /\ last.held = 1
    /\ last.outcome = "reject"

\* C6: a COVER of q > 0 shares against a live short position of n shares is
\* not rejected: a BUY-side order of floor(min(q, n) * (1 - buffer_pct)).
CoverSubmittedWhenShort ==
    (last.action = "COVER" /\ last.requested > 0 /\ last.held < 0)
    => /\ last.outcome \in SubmitOutcomes
       /\ last.side = "BUY"
       /\ last.quantity =
             Trunc(Min(last.requested * QtyScale, 0 - last.held) * (100 - BufferPct),
                   100 * QtyScale)

ValidActions == {"BUY", "SELL", "SHORT", "COVER"}

\* C7: submit_order is called only for a decision whose action, once
\* upper-cased, is BUY, SELL, SHORT or COVER and whose quantity is > 0; a
\* HOLD, a quantity <= 0 and an unknown action never lead to a call (nor does
\* a decision whose fields could not be converted).
OnlyActionableDecisionsSubmit ==
    /\ last.outcome \in SubmitOutcomes
        => last.action \in ValidActions /\ last.requested > 0
    /\ (last.outcome # "none" /\
        (last.action \notin ValidActions \/ last.requested <= 0))
        => /\ last.outcome \in {"skip", "ignore", "raised"}
           /\ CallsFor(last.ticker) = {}

\* C7's case: an unknown action with a positive quantity fell through the
\* chain after another decision of the batch had been submitted.
UnknownActionIgnored ==
    /\ last.raw_action = "CLOSE"
    /\ last.requested > 0
    /\ last.outcome = "ignore"
    /\ calls # <<>>

\* ---------------------------------------------- claims on the risk manager
\* The step reloads risk_data from the file (a new RiskManager).
IsReload == rpc = "idle" /\ rpc' = "idle"

\* The step is the loop iteration for the position of symbol s.
IsEvaluationOf(s) ==
    /\ rpc = "loop"
    /\ cursor < Len(positions)
    /\ positions[cursor + 1].symbol = s

\* C8, as claimed: from one pass to a later one, while the symbol's position
\* stays live on one side, the extreme_price stored for it never decreases
\* (LONG) or increases (SHORT).  Stated for runs whose every save succeeded.
ExtremeNeverRetreats ==
    [][\A s \in Symbols :
          (tracked[s].side # "" /\ tracked'[s].side # "" /\ save_faults' = 0)
          => IF tracked[s].side = "LONG"
             THEN tracked'[s].extreme_price >= tracked[s].extreme_price
             ELSE tracked'[s].extreme_price <= tracked[s].extreme_price]_vars

\* C8, amended: while a symbol's record stays in the store of a RiskManager,
\* its extreme_price never decreases when the position evaluated is LONG and
\* never increases when it is SHORT, and no other step changes it.
RecordExtremeMonotone ==
    [][~IsReload =>
          \A s \in (DOMAIN risk_data) \cap (DOMAIN risk_data') :
              IF IsEvaluationOf(s)
              THEN IF IsLong(positions[cursor + 1])
                   THEN risk_data'[s].extreme_price >= risk_data[s].extreme_price
                   ELSE risk_data'[s].extreme_price <= risk_data[s].extreme_price
              ELSE risk_data'[s] = risk_data[s]]_vars

\* C8's case: a pass raised the extreme of a record an earlier pass had
\* stored for a long position.
ExtremeRaisedOnStoredRecord ==
    /\ evaluated.symbol # ""
    /\ evaluated.is_long
    /\ evaluated.had_record
    /\ ~evaluated.triggered
    /\ tracked[evaluated.symbol].side = "LONG"
    /\ evaluated.record.extreme_price > evaluated.stored_extreme
    /\ risk_data[evaluated.symbol].extreme_price = evaluated.current_price

\* The extreme_price the stop is computed from: the stored one, moved to the
\* current price when that is better.
ExtremeAfterUpdate(e) ==
    IF e.is_long
    THEN Max(e.stored_extreme, e.current_price)
    ELSE Min(e.stored_extreme, e.current_price)

\* current_price has crossed final_stop in the adverse direction.
CrossedFinalStop(e) ==
    IF e.is_long
    THEN 100 * e.current_price
            <= Max(e.avg_entry_price * (100 - initial_stop_loss_pct),
                   ExtremeAfterUpdate(e) * (100 - trailing_pct))
    ELSE 100 * e.current_price
            >= Min(e.avg_entry_price * (100 + initial_stop_loss_pct),
                   ExtremeAfterUpdate(e) * (100 + trailing_pct))

ClosedInPass(symbol) == \E i \in DOMAIN closes : closes[i].symbol = symbol

\* C9: a position is treated as triggered (execute_close is called for it
\* and its record is dropped) exactly when its current price has crossed
\* final_stop = max(hard, trail) for LONG, min(hard, trail) for SHORT.
TriggeredIffCrossedFinalStop ==
    evaluated.symbol # ""
    => /\ ClosedInPass(evaluated.symbol) <=> CrossedFinalStop(evaluated)
       /\ (evaluated.symbol \notin DOMAIN risk_data) <=> CrossedFinalStop(evaluated)

\* C9's case: a long position closed with its price exactly on a trailing
\* stop that lies above the hard stop.
ClosedOnTrailingStop ==
    /\ evaluated.symbol # ""
    /\ evaluated.is_long
    /\ evaluated.had_record
    /\ evaluated.trail_stop > evaluated.hard_stop
    /\ 100 * evaluated.current_price = evaluated.trail_stop
    /\ ClosedInPass(evaluated.symbol)

\* The current price strictly improves on the extreme_price that was stored
\* before the pass, in a record of the position's own side.
ImprovesOnStored(e) ==
    /\ e.symbol # ""
    /\ e.had_record
    /\ e.record.side = (IF e.is_long THEN "LONG" ELSE "SHORT")
    /\ IF e.is_long THEN e.current_price > e.stored_extreme
       ELSE e.current_price < e.stored_extreme

\* C10, as claimed: no stop triggers for a position whose current price
\* strictly improves on the stored extreme_price.
NoTriggerOnImprovement ==
    (ImprovesOnStored(evaluated) /\ save_faults = 0) => ~ClosedInPass(evaluated.symbol)

\* current_price has crossed the hard stop.
CrossedHardStop(e) ==
    IF e.is_long
    THEN 100 * e.current_price <= e.avg_entry_price * (100 - initial_stop_loss_pct)
    ELSE 100 * e.current_price >= e.avg_entry_price * (100 + initial_stop_loss_pct)

\* C10, amended: for a position whose positive current price strictly
\* improves on the stored extreme_price, a stop triggers only when the price
\* has crossed the hard stop; the trailing stop never triggers it.
TriggerOnImprovementIsHardStop ==
    (ImprovesOnStored(evaluated) /\ evaluated.current_price > 0)
    => /\ ClosedInPass(evaluated.symbol) <=> CrossedHardStop(evaluated)
       /\ 100 * evaluated.current_price # evaluated.trail_stop
       /\ evaluated.is_long => 100 * evaluated.current_price > evaluated.trail_stop
       /\ ~evaluated.is_long => 100 * evaluated.current_price < evaluated.trail_stop

\* C10's case: the price improved on the stored extreme and the hard stop of
\* a higher average entry price closed the long position.
ClosedOnImprovement ==
    /\ ImprovesOnStored(evaluated)
    /\ evaluated.is_long
    /\ save_faults = 0
    /\ ClosedInPass(evaluated.symbol)
    /\ CrossedHardStop(evaluated)

\* The trailing stop has moved strictly past the hard stop.
TrailPastHard(e) ==
    LET hard  == IF e.is_long THEN e.avg_entry_price * (100 - initial_stop_loss_pct)
                 ELSE e.avg_entry_price * (100 + initial_stop_loss_pct)
        trail == IF e.is_long THEN ExtremeAfterUpdate(e) * (100 - trailing_pct)
                 ELSE ExtremeAfterUpdate(e) * (100 + trailing_pct)
    IN  IF e.is_long THEN trail > hard ELSE trail < hard

\* C11: the reason attached to a closing order is TRAIL only when the
\* trailing stop has moved strictly past the hard stop, and HARD otherwise,
\* also when the two stops are equal.
TrailReasonOnlyPastHard ==
    \A i \in DOMAIN closes :
        closes[i].symbol = evaluated.symbol
        => (closes[i].reason = "TRAIL" <=> TrailPastHard(evaluated))

\* The symbols of the positions the pass's get_all_positions returned.
LiveSymbols == {positions[i].symbol : i \in DOMAIN positions}

\* C12: at the end of a pass that read the positions, no symbol absent from
\* them has a record left, neither in risk_data nor in risk_data.json.
OrphanRecordsRemoved ==
    rpc = "done"
    => \A s \in Symbols \ LiveSymbols :
          /\ s \notin DOMAIN risk_data
          /\ s \notin DOMAIN LoadData(data_file)

\* C13: after a pass that repeats the pass before it (same positions, same
\* prices), neither of the two closing anything, risk_data.json holds the
\* store it held after that pass.
RepeatedPassKeepsFile ==
    (rpc = "done" /\ earlier.repeat /\ earlier.quiet /\ closes = <<>>)
    => LoadData(data_file) = LoadData(earlier.file)

\* C14: a pass whose position read fails evaluates nothing, submits nothing,
\* saves nothing and leaves risk_data and risk_data.json as they were.
AbortLeavesStoreUntouched ==
    [][(rpc = "idle" /\ rpc' = "aborted")
       => /\ risk_data' = risk_data
          /\ data_file' = data_file
          /\ closes' = <<>>
          /\ evaluated' = NoEvaluation
          /\ current_symbols' = <<>>
          /\ saved' = "none"]_vars

\* C14's case: the read failed in a pass that started with a record in
\* memory and on disk.
AbortedWithRecords ==
    /\ rpc = "aborted"
    /\ risk_data # EmptyDict
    /\ data_file = [kind |-> "json", dict |-> risk_data]

\* C15: the record of a symbol whose stop triggered in this pass is absent
\* from risk_data for the rest of the pass, whether the submit returned or
\* raised; and the pass still evaluates every position and calls _save_data,
\* which, when it succeeds, writes a dict without that record.
TriggeredRecordStaysDeleted ==
    /\ rpc \in {"loop", "done"}
       => \A i \in DOMAIN closes : closes[i].symbol \notin DOMAIN risk_data
    /\ (rpc = "done" /\ positions # <<>>)
       => /\ cursor = Len(positions)
          /\ SeqToSet(current_symbols) = LiveSymbols
          /\ saved \in SaveOutcomes
          /\ saved = "ok"
             => \A i \in DOMAIN closes : closes[i].symbol \notin DOMAIN data_file.dict

\* C15's case: the submit for the first of two positions raised, the second
\* was evaluated and kept, and the pass saved.
FailedCloseThenSaved ==
    /\ rpc = "done"
    /\ Len(positions) = 2
    /\ \E i \in DOMAIN closes :
          closes[i].symbol = positions[1].symbol /\ ~closes[i].ok
    /\ positions[2].symbol \in DOMAIN risk_data
    /\ saved = "ok"
    /\ data_file.dict = risk_data

\* C16: at the end of every pass that read the positions, the store in
\* risk_data.json (what _load_data would return) is exactly risk_data.
FileEqualsMemoryAfterPass ==
    rpc = "done" => LoadData(data_file) = risk_data

\* C17: after a completed pass the side of every stored record is the side
\* of the symbol's live position.  Stated for runs whose every save succeeded.
RecordSideIsPositionSide ==
    (rpc = "done" /\ save_faults = 0)
    => \A i \in DOMAIN positions :
          positions[i].symbol \in DOMAIN risk_data
          => risk_data[positions[i].symbol].side
                = (IF IsLong(positions[i]) THEN "LONG" ELSE "SHORT")

\* C18: no closing order is submitted for a position whose average entry
\* price or current price is zero or negative.
NoTriggerOnGarbagePrice ==
    (evaluated.symbol # ""
       /\ (evaluated.avg_entry_price <= 0 \/ evaluated.current_price <= 0))
    => ~ClosedInPass(evaluated.symbol)

\* C19: execute_decisions never raises on a malformed decision.
MalformedDecisionOnlyRejected == tpc # "raised"

\* C20: submit_order is called at most once for each decision of a batch and
\* at most once for each position a pass has evaluated, whether the call
\* returned or raised.
NoSubmitRetry ==
    /\ \A ticker \in Symbols : Cardinality(CallsFor(ticker)) <= 1
    /\ \A s \in Symbols :
          Cardinality({i \in DOMAIN closes : closes[i].symbol = s}) <= 1
    /\ Len(closes) <= cursor
    /\ \A i \in DOMAIN closes : closes[i].symbol \in SeqToSet(current_symbols)

\* C20's case: a pass closed both of its positions, the first submit raising
\* and the second returning.
FailedSubmitNotRepeated ==
    /\ rpc = "done"
    /\ Len(closes) = 2
    /\ ~closes[1].ok
    /\ closes[2].ok

\* ------------------------------------- further claims on the validator
\* C21: get_realtime_price returns the last-trade price when ask and
\* last-trade price (both positive) differ by more than 2% of the last-trade
\* price, otherwise the ask when it is positive, otherwise the last-trade
\* price when that is positive, and 0 when neither is or the fetch failed.
RealtimePriceCrossChecked ==
    last.fetched
    => last.rt_price =
          (IF ~last.fetch_ok THEN 0
           ELSE IF /\ last.ask > 0
                   /\ last.last_price > 0
                   /\ 100 * Abs(last.ask - last.last_price) > 2 * last.last_price
                THEN last.last_price
           ELSE IF last.ask > 0 THEN last.ask
           ELSE IF last.last_price > 0 THEN last.last_price
           ELSE 0)

\* C21's case: an ask exactly 2% above the last-trade price is still used.
AskUsedAtTolerance ==
    /\ last.fetched
    /\ last.fetch_ok
    /\ last.last_price > 0
    /\ last.ask > last.last_price
    /\ 100 * (last.ask - last.last_price) = 2 * last.last_price
    /\ last.rt_price = last.ask

\* floor(n / d) for d > 0.
Floor(n, d) == n \div d

\* C22: a BUY for q > 0 on a symbol without a short position and with a
\* positive fetched price p is submitted on side BUY for
\* floor(min(q, floor(cash x (1 - buffer) / p)) x (1 - buffer)).
BuyQuantityFormula ==
    (last.action = "BUY" /\ last.requested > 0 /\ last.held >= 0 /\ last.rt_price > 0)
    => /\ last.outcome \in SubmitOutcomes
       /\ last.side = "BUY"
       /\ last.quantity =
             Floor(Min(last.requested,
                       Floor(portfolio.cash * (100 - BufferPct), 100 * last.rt_price))
                   * (100 - BufferPct), 100)

\* C26: every order passed to submit_order has a quantity of at least 1.
SubmittedQuantityPositive == \A i \in DOMAIN calls : calls[i].qty >= 1

\* C29: a submit_order failure ends neither the loop nor the call: the step
\* that records a failed call leaves the loop running on the same snapshot
\* with only that decision consumed, the snapshot never changes inside the
\* loop, and execute_decisions is left by an exception only on a malformed
\* decision.
SubmitFailureContained ==
    [][/\ (Len(calls') > Len(calls) /\ ~calls'[Len(calls')].ok)
          => /\ tpc' = "loop"
             /\ pending' = pending \ {last'.ticker}
             /\ last'.outcome = "failed"
       /\ tpc = "loop" => (portfolio' = portfolio /\ account' = account)
       /\ tpc' = "raised" => last'.outcome = "raised"]_vars

\* C29's case: the first submit of the batch failed, a later decision was
\* submitted, and execute_decisions returned.
SubmittedAfterFailure ==
    /\ tpc = "done"
    /\ Len(calls) = 2
    /\ ~calls[1].ok
    /\ calls[2].ok

\* ---------------------------------- further claims on the risk manager
\* C24: when a pass repeats the pass before it (the position still live at
\* the same price and entry) and that pass's closing order for a symbol
\* failed to submit, this pass has submitted a closing order for the symbol
\* by its end.
FailedCloseRetriedNextPass ==
    (rpc = "done" /\ earlier.repeat)
    => \A i \in DOMAIN earlier.closes :
          ~earlier.closes[i].ok => ClosedInPass(earlier.closes[i].symbol)

\* C25: when a pass repeats the pass before it (the Gateway still reports
\* the position) and that pass's closing order for a symbol was submitted,
\* this pass submits no closing order for the symbol.
NoSecondCloseAfterSubmit ==
    earlier.repeat
    => \A i \in DOMAIN earlier.closes :
          earlier.closes[i].ok => ~ClosedInPass(earlier.closes[i].symbol)

\* C27: at the end of every pass that read the positions, risk_data holds a
\* record for exactly the live symbols that were not closed in the pass (none
\* at all after an empty list), and a successful save has written just that.
StoreHoldsLiveUntriggered ==
    rpc = "done"
    => /\ DOMAIN risk_data = {s \in LiveSymbols : ~ClosedInPass(s)}
       /\ positions = <<>> => risk_data = EmptyDict
       /\ saved = "ok" => data_file = [kind |-> "json", dict |-> risk_data]

\* C27's case: of two live positions one was closed and one kept.
OneClosedOneKept ==
    /\ rpc = "done"
    /\ Len(positions) = 2
    /\ Len(closes) = 1
    /\ Cardinality(DOMAIN risk_data) = 1
    /\ saved = "ok"

\* C28: every closing order of a pass is for the absolute quantity of a live
\* position that crossed its final stop, SELL for a long and BUY for a short
\* one; a position that did not cross it gets none.
CloseIsFullAndOpposite ==
    /\ \A i \in DOMAIN closes :
          \E j \in DOMAIN positions :
             /\ positions[j].symbol = closes[i].symbol
             /\ closes[i].qty = Abs(positions[j].qty)
             /\ closes[i].side = (IF positions[j].qty > 0 THEN "SELL" ELSE "BUY")
    /\ (evaluated.symbol # "" /\ ~CrossedFinalStop(evaluated))
       => ~ClosedInPass(evaluated.symbol)

\* C28's case: a pass closed a long and a short position.
ClosedLongAndShort ==
    /\ Len(closes) = 2
    /\ closes[1].side = "SELL"
    /\ closes[2].side = "BUY"
    /\ positions[1].qty > 0
    /\ positions[2].qty < 0

\* What one pass leaves in the store when it starts from dict and reads pos.
PassStore(dict, pos) ==
    LET e == Evaluate(dict, pos, TrailingPct, InitialStopLossPct)
    IN  IF e.triggered THEN Without(dict, e.symbol)
        ELSE With(dict, e.symbol, e.record)

\* The store after the two passes one after the other, each on what it read.
SerialStore(first, second) ==
    PassStore(PassStore(EmptyDict, managers[first].seen), managers[second].seen)

FilledOrders == {i \in DOMAIN orders : orders[i].ok}

\* C23: when two RiskManager runs on the same file and account have both
\* finished their pass, the position has received at most one closing order
\* that was submitted, and, when both read the position and neither closed
\* it, the file holds what the two passes leave in one of the two serial
\* orders.
OverlapIsSerial ==
    (\A m \in Managers : managers[m].pc = "done") =>
        /\ Cardinality(FilledOrders) <= 1
        /\ (orders = <<>> /\ \A m \in Managers : managers[m].seen # NoPosition) =>
              LoadData(shared_file) \in {SerialStore("A", "B"), SerialStore("B", "A")}

\* C30: when call_llm has returned, it has invoked the model at most
\* max_retries times, it has returned something, and if a default_factory
\* was given and every one of its attempts (at least one) raised or yielded
\* no JSON, what it returned is default_factory().
LlmFallsBackToFactory ==
    lpc = "returned" =>
        /\ Len(attempts) <= max_retries
        /\ returned # "none"
        /\ (/\ has_default
            /\ Len(attempts) >= 1
            /\ \A i \in DOMAIN attempts : attempts[i] \in {"raised", "no_json"})
              => returned = "default_factory"

====
